---- MODULE Spec2Model ----
(***************************************************************************)
(* Model of src/src/day_kind.rs (holidays_se): the day classifier          *)
(* HasDayKind::day_kind, the slice iterator SliceIterator (bounded, built  *)
(* by slice_on_day_kind, and unbounded, built by SliceIterator::from_dt)   *)
(* and DayKind::next_start.                                                *)
(*                                                                         *)
(* Time.  An instant is an integer count of ticks; a local calendar day    *)
(* holds TicksPerDay ticks, day d starting at the local midnight           *)
(* d * TicksPerDay.  Day 0 has weekday FirstWeekday and day-of-year        *)
(* FirstOrdinal, so the modelled days run over a week end and over a       *)
(* year end.  Every day has the same number of ticks: a daylight-saving    *)
(* shift changes a day's length, not the order of instants.  The year day  *)
(* 0 lies in has 365 or 366 days (leap_year), and the time zone may have   *)
(* one day in view whose local midnight is skipped or repeated by a shift  *)
(* of the clock (invalid_midnight): Date::and_hms panics for that day.     *)
(*                                                                         *)
(* Calendar.  super::next_upcoming_holiday is not part of day_kind.rs; it  *)
(* is modelled from its contract (the first holiday on or after a date)    *)
(* over a set of holiday days, which Init chooses freely.                  *)
(***************************************************************************)
EXTENDS Integers, Sequences, FiniteSets

\* ---------------------------------------------------------------- bounds

\* Last calendar day of the model (days are 0..MaxDay).
MaxDay == 5

\* Instants per calendar day (tick 0 of a day is its local midnight).
TicksPerDay == 2

\* Weekday of day 0 (0 = Monday ... 6 = Sunday).
FirstWeekday == 3

\* Day-of-year of day 0.
FirstOrdinal == 361

\* How often the consumer pulls again after the iterator returned None.
MaxNones == 2

\* ------------------------------------------------------- dates and times

\* chrono::Weekday::Sat and chrono::Weekday::Sun, numbered from Monday = 0.
Sat == 5
Sun == 6

VARIABLES
    leap_year,        \* whether the year day 0 lies in has 366 days
    invalid_midnight  \* Option: the day whose local time 00:00:00 does not
                      \* exist, or exists twice, in the time zone

\* Days of the year day 0 lies in: Datelike::ordinal runs over 1..DaysInYear.
DaysInYear == IF leap_year THEN 366 ELSE 365

Days == 0..MaxDay

Instants == 0..((MaxDay + 1) * TicksPerDay - 1)

\* A holiday past the modelled days: next_upcoming_holiday is total.
FarHoliday == MaxDay + 2

DayKind == {"Weekday", "DayBeforeHoliday", "Holiday"}

\* Option<T>: None is the empty sequence, Some(x) the sequence <<x>>.
None == << >>
Some(x) == << x >>

\* DateTime::date(): the local calendar day of an instant.
date(t) == t \div TicksPerDay

\* The instant at which day d starts.
Midnight(d) == d * TicksPerDay

\* Date::and_hms(0, 0, 0): the local midnight that starts day d; None stands
\* for the panic ("invalid time") when that local time is not a single instant.
and_hms(d) == IF invalid_midnight = Some(d) THEN None ELSE Some(Midnight(d))

\* Datelike::weekday()
weekday(d) == (d + FirstWeekday) % 7

\* Datelike::ordinal0(), the 0-based day of the year, for ordinal() (a
\* mutant).
ordinal_ZeroBased(d) == (d + FirstOrdinal - 1) % DaysInYear

\* Datelike::ordinal(): the 1-based day of the year.
ordinal(d) == ((d + FirstOrdinal - 1) % DaysInYear) + 1

\* super::next_upcoming_holiday(date).1: the first holiday on or after d.
next_upcoming_holiday(cal, d) ==
    CHOOSE h \in cal : h >= d /\ \A g \in cal : g >= d => h <= g

\* ------------------------------------------------------------ classifier

\* HasDayKind::day_kind without the Sunday rule (a mutant).
day_kind_NoSundayRule(cal, d) ==
    LET self_ord == ordinal(d)
        next_holiday_ord == ordinal(next_upcoming_holiday(cal, d))
    IN  IF self_ord = next_holiday_ord
        THEN "Holiday"
        ELSE IF self_ord = next_holiday_ord - 1 \/ weekday(d) = Sat
             THEN "DayBeforeHoliday"
             ELSE "Weekday"

\* HasDayKind::day_kind with && for || in line 43 (a mutant).
day_kind_AndSaturday(cal, d) ==
    LET wd == weekday(d)
    IN  IF wd = Sun
        THEN "Holiday"
        ELSE LET self_ord == ordinal(d)
                 next_holiday_ord == ordinal(next_upcoming_holiday(cal, d))
             IN  IF self_ord = next_holiday_ord
                 THEN "Holiday"
                 ELSE IF self_ord = next_holiday_ord - 1 /\ wd = Sat
                      THEN "DayBeforeHoliday"
                      ELSE "Weekday"

\* HasDayKind::day_kind with the tests of lines 41 and 43 in the other order
\* (a mutant).
day_kind_EveFirst(cal, d) ==
    LET wd == weekday(d)
    IN  IF wd = Sun
        THEN "Holiday"
        ELSE LET self_ord == ordinal(d)
                 next_holiday_ord == ordinal(next_upcoming_holiday(cal, d))
             IN  IF self_ord = next_holiday_ord - 1 \/ wd = Sat
                 THEN "DayBeforeHoliday"
                 ELSE IF self_ord = next_holiday_ord
                      THEN "Holiday"
                      ELSE "Weekday"

\* HasDayKind::day_kind
day_kind(cal, d) ==
    LET wd == weekday(d)
    IN  IF wd = Sun
        THEN "Holiday"
        ELSE LET self_ord == ordinal(d)
                 next_holiday_ord == ordinal(next_upcoming_holiday(cal, d))
             IN  IF self_ord = next_holiday_ord
                 THEN "Holiday"
                 ELSE IF self_ord = next_holiday_ord - 1 \/ wd = Sat
                      THEN "DayBeforeHoliday"
                      ELSE "Weekday"

\* ----------------------------------------------------------------- state

VARIABLES
    holidays,     \* the holiday calendar: the set of holiday days
    op,           \* "slice" (slice_on_day_kind) or "next_start"
    range,        \* the arguments: [start, end] with end = None for next_start
    target,       \* next_start's self (a DayKind); "-" for slice
    start,        \* SliceIterator.start (the cursor)
    end,          \* SliceIterator.end: Option
    pc,           \* "idle": between calls of next(); "loop": in next()'s loop;
                  \* "found": next_start has returned; "panic": unwrap of None;
                  \* "invalid_time": and_hms has panicked inside next()
    start_kind,   \* next()'s local start_kind ("-" outside the loop)
    step,         \* next()'s local step (0 outside the loop)
    yielded,      \* the slices next() has returned so far, in order
    ret,          \* what the last call of next() returned: "-", "Some", "None"
    nones,        \* how many calls of next() returned None
    probes,       \* the days day_kind was called on, in order
    result        \* next_start's return value: Option

vars == << leap_year, invalid_midnight, holidays, op, range, target, start,
           end, pc, start_kind, step, yielded, ret, nones, probes, result >>

\* DayKindSlice { range: start..end, kind }
DayKindSlice(s, e, k) == [start |-> s, end |-> e, kind |-> k]

Calendars == { H \cup {FarHoliday} : H \in SUBSET Days }

\* The time zones in view: every local midnight is a single instant, or one
\* day's is not (next() asks for the midnights of days 1..MaxDay + 1).
InvalidMidnights == {None} \cup { Some(d) : d \in 1..(MaxDay + 1) }

\* slice_on_day_kind(range): SliceIterator { start: range.start, end: Some(range.end) }
InitSlice ==
    /\ op = "slice"
    /\ \E s \in Instants, e \in Instants :
          /\ range = [start |-> s, end |-> Some(e)]
          /\ start = s
          /\ end = Some(e)
    /\ target = "-"

\* SliceIterator::from_dt(*dt), called by next_start(&self, dt)
InitNextStart ==
    /\ op = "next_start"
    /\ \E dt \in Instants :
          /\ range = [start |-> dt, end |-> None]
          /\ start = dt
          /\ end = None
    /\ target \in DayKind

Init ==
    /\ leap_year \in BOOLEAN
    /\ invalid_midnight \in InvalidMidnights
    /\ holidays \in Calendars
    /\ (InitSlice \/ InitNextStart)
    /\ pc = "idle"
    /\ start_kind = "-"
    /\ step = 0
    /\ yielded = << >>
    /\ ret = "-"
    /\ nones = 0
    /\ probes = << >>
    /\ result = None

\* ------------------------------------------------------ SliceIterator::next

\* The test of line 68 with == for <= (a mutant).
Exhausted_Equal(s, e) == e # None /\ e[1] = s

\* The test of line 68 with < for <= (a mutant).
Exhausted_Strict(s, e) == e # None /\ e[1] < s

\* The test of line 68 with unwrap_or(true) (a mutant).
Exhausted_NoneIsEnd(s, e) == e = None \/ e[1] <= s

\* self.end.map(|end| end <= self.start).unwrap_or(false)
Exhausted(s, e) == e # None /\ e[1] <= s

\* Duration::days(1) added to the instant instead of the date (a mutant).
next_day_SameTime(t) == Some(t + TicksPerDay)

\* (step.date() + Duration::days(1)).and_hms(0, 0, 0): Option, None for the
\* panic of and_hms.
next_day(t) == and_hms(date(t) + 1)

\* `end < next_day` tested against the step instead (a mutant).
ReachedEnd_AtStep(e, nd) == e # None /\ e[1] < nd - TicksPerDay

\* if let Some(end) = self.end { if end < next_day { ... } }
ReachedEnd(e, nd) == e # None /\ e[1] < nd

\* The kind test of line 92 always true (a mutant).
KindChanges_Always(cal, nd, k) == TRUE

\* The kind test of line 92 with == for != (a mutant).
KindChanges_Inverted(cal, nd, k) == day_kind(cal, date(nd)) = k

\* The kind test of line 92 comparing start_kind with itself (a mutant).
KindChanges_Never(cal, nd, k) == k # k

\* next_day.day_kind() != start_kind
KindChanges(cal, nd, k) == day_kind(cal, date(nd)) # k

\* next_start returning the slice's range.end (a mutant).
Return_RangeEnd(slice) ==
    /\ yielded' = Append(yielded, slice)
    /\ ret' = "Some"
    /\ start_kind' = "-"
    /\ step' = 0
    /\ IF op = "next_start" /\ slice.kind = target
       THEN /\ pc' = "found"
            /\ result' = Some(slice.end)
       ELSE /\ pc' = "idle"
            /\ result' = result

\* The iterator hands slice to its consumer: slice_on_day_kind's caller takes
\* it; next_start's find returns the first slice of kind self and next_start
\* returns its range.start.
Return(slice) ==
    /\ yielded' = Append(yielded, slice)
    /\ ret' = "Some"
    /\ start_kind' = "-"
    /\ step' = 0
    /\ IF op = "next_start" /\ slice.kind = target
       THEN /\ pc' = "found"
            /\ result' = Some(slice.start)
       ELSE /\ pc' = "idle"
            /\ result' = result

\* next(), lines 68-70: the range is used up, return None.
NextNone ==
    /\ pc = "idle"
    /\ Exhausted(start, end)
    /\ nones < MaxNones
    /\ ret' = "None"
    /\ nones' = nones + 1
    /\ pc' = IF op = "next_start" THEN "panic" ELSE "idle"
    /\ UNCHANGED << leap_year, invalid_midnight, holidays, op, range, target,
                    start, end, start_kind, step, yielded, probes, result >>

\* next(), lines 72-73: classify the cursor's day and enter the loop.
NextBegin ==
    /\ pc = "idle"
    /\ ~Exhausted(start, end)
    /\ start_kind' = day_kind(holidays, date(start))
    /\ probes' = Append(probes, date(start))
    /\ step' = start
    /\ pc' = "loop"
    /\ UNCHANGED << leap_year, invalid_midnight, holidays, op, range, target,
                    start, end, yielded, ret, nones, result >>

\* LoopEnd without `self.start = end` of line 87 (a mutant).
LoopEnd_NoAdvance ==
    /\ pc = "loop"
    /\ next_day(step) # None
    /\ ReachedEnd(end, next_day(step)[1])
    /\ Return(DayKindSlice(start, end[1], start_kind))
    /\ UNCHANGED << leap_year, invalid_midnight, holidays, op, range, target,
                    start, end, nones, probes >>

\* next(), lines 79-90: the range ends before the next midnight.
LoopEnd ==
    /\ pc = "loop"
    /\ next_day(step) # None
    /\ ReachedEnd(end, next_day(step)[1])
    /\ start' = end[1]
    /\ Return(DayKindSlice(start, end[1], start_kind))
    /\ UNCHANGED << leap_year, invalid_midnight, holidays, op, range, target,
                    end, nones, probes >>

\* next(), lines 92-99: the day that starts at the next midnight has another
\* kind.
LoopChange ==
    /\ pc = "loop"
    /\ next_day(step) # None
    /\ ~ReachedEnd(end, next_day(step)[1])
    /\ date(next_day(step)[1]) \in Days
    /\ KindChanges(holidays, next_day(step)[1], start_kind)
    /\ probes' = Append(probes, date(next_day(step)[1]))
    /\ start' = next_day(step)[1]
    /\ Return(DayKindSlice(start, next_day(step)[1], start_kind))
    /\ UNCHANGED << leap_year, invalid_midnight, holidays, op, range, target,
                    end, nones >>

\* next(), line 101: same kind, step to the next midnight.
LoopStep ==
    /\ pc = "loop"
    /\ next_day(step) # None
    /\ ~ReachedEnd(end, next_day(step)[1])
    /\ date(next_day(step)[1]) \in Days
    /\ ~KindChanges(holidays, next_day(step)[1], start_kind)
    /\ probes' = Append(probes, date(next_day(step)[1]))
    /\ step' = next_day(step)[1]
    /\ UNCHANGED << leap_year, invalid_midnight, holidays, op, range, target,
                    start, end, pc, start_kind, yielded, ret, nones, result >>

\* next(), line 76: and_hms panics, the call never returns and the iterator
\* is left as it was.
LoopPanic ==
    /\ pc = "loop"
    /\ next_day(step) = None
    /\ pc' = "invalid_time"
    /\ UNCHANGED << leap_year, invalid_midnight, holidays, op, range, target,
                    start, end, start_kind, step, yielded, ret, nones, probes,
                    result >>

Next ==
    \/ NextNone
    \/ NextBegin
    \/ LoopPanic
    \/ LoopEnd
    \/ LoopChange
    \/ LoopStep

Spec == Init /\ [][Next]_vars

\* next() runs to its return and the consumer keeps pulling.
FairSpec == Spec /\ WF_vars(Next)

\* ------------------------------------------------------------ properties

\* The kind of day d under the current calendar.
KindOf(d) == day_kind(holidays, d)

IsMidnight(t) == t % TicksPerDay = 0

\* next_start has been called and no day has been classified yet.  The
\* calendar and the year never change and are the same whatever is called,
\* so what is stated of all the calendar's days is compared in these states.
BeforeFirstProbe == op = "next_start" /\ probes = << >>

\* A bounded range [s, e) with s < e was given to slice_on_day_kind.
ProperRange == op = "slice" /\ range.start < range.end[1]

\* The calendar days that hold an instant of [s, e).
DaysTouched(s, e) == IF s < e THEN date(e - 1) - date(s) + 1 ELSE 0

\* C1 (Coverage): for a bounded range [s, e) with s < e the yielded slices
\* start at s, each is non-empty and ends where the next one starts, and
\* once the iterator is exhausted the last one ends at e.
C1_Coverage ==
    ProperRange =>
        /\ yielded # << >> => yielded[1].start = range.start
        /\ \A i \in 1..Len(yielded) : yielded[i].start < yielded[i].end
        /\ \A i \in 1..(Len(yielded) - 1) : yielded[i].end = yielded[i + 1].start
        /\ (pc = "idle" /\ Exhausted(start, end)) =>
              /\ yielded # << >>
              /\ yielded[Len(yielded)].end = range.end[1]

\* A mid-day to mid-day range was sliced to exhaustion into three or more
\* slices.
C1_Witness ==
    /\ ProperRange
    /\ ret = "None"
    /\ Len(yielded) >= 3
    /\ ~IsMidnight(range.start)
    /\ ~IsMidnight(range.end[1])

\* C2 (Constancy): in every yielded slice, bounded or unbounded, every day
\* that holds an instant of [slice.start, slice.end), from the day of its
\* first instant to the day of its last, is classified as slice.kind by
\* day_kind.
C2_Constancy ==
    \A i \in 1..Len(yielded) :
        \A d \in date(yielded[i].start)..date(yielded[i].end - 1) :
            KindOf(d) = yielded[i].kind

\* A slice that starts mid-day and runs over three or more days was yielded,
\* after a slice of another kind.
C2_Witness ==
    \E i \in 2..Len(yielded) :
        /\ date(yielded[i].end - 1) >= date(yielded[i].start) + 2
        /\ ~IsMidnight(yielded[1].start)

\* C3 (Maximality): no two consecutive yielded slices have the same kind.
C3_Maximality ==
    \A i \in 1..(Len(yielded) - 1) : yielded[i].kind # yielded[i + 1].kind

\* A bounded traversal ended with a final slice cut mid-day at the range end,
\* after a slice of several days whose days all passed the kind test.
C3_Witness ==
    /\ ProperRange
    /\ ret = "None"
    /\ Len(yielded) >= 3
    /\ ~IsMidnight(yielded[Len(yielded)].end)
    /\ \E i \in 1..Len(yielded) :
          date(yielded[i].end - 1) > date(yielded[i].start)

\* next_start(target, from) has returned.
Found == op = "next_start" /\ pc = "found"

\* C4 (Inclusivity of next_start): when next_start returns and the day of dt
\* classifies to the target kind, it returns dt itself.
C4_Inclusive ==
    (Found /\ KindOf(date(range.start)) = target)
        => result = Some(range.start)

\* next_start returned a mid-day dt whose day has the target kind.
C4_Witness ==
    /\ Found
    /\ KindOf(date(range.start)) = target
    /\ ~IsMidnight(range.start)
    /\ result = Some(range.start)

\* C5 (earliest start): when next_start returns and the day of from has
\* another kind than the target, the result r is the local midnight of the
\* first day after from's day that classifies to the target.
C5_EarliestStart ==
    (Found /\ KindOf(date(range.start)) # target) =>
        /\ result # None
        /\ IsMidnight(result[1])
        /\ result[1] > range.start
        /\ KindOf(date(result[1])) = target
        /\ \A d \in date(range.start)..(date(result[1]) - 1) : KindOf(d) # target

\* next_start returned a midnight three or more days after a mid-day from,
\* past slices of two other kinds.
C5_Witness ==
    /\ Found
    /\ KindOf(date(range.start)) # target
    /\ ~IsMidnight(range.start)
    /\ Len(yielded) >= 3
    /\ result # None
    /\ date(result[1]) >= date(range.start) + 3

\* Day d is the next upcoming holiday of itself, as day_kind tests it.
IsHolidayEntry(d) == ordinal(d) = ordinal(next_upcoming_holiday(holidays, d))

\* C6 as claimed (Saturday invariant): whatever the calendar holds, next()
\* takes DayBeforeHoliday as the kind of a cursor on a Saturday, and every
\* slice that starts on a Saturday has that kind.
C6_Original ==
    /\ (pc = "loop" /\ weekday(date(start)) = Sat)
          => start_kind = "DayBeforeHoliday"
    /\ \A i \in 1..Len(yielded) :
          weekday(date(yielded[i].start)) = Sat
              => yielded[i].kind = "DayBeforeHoliday"

\* C6 as amended: a Saturday that is not itself the next upcoming holiday
\* classifies as DayBeforeHoliday; a Saturday that is classifies as Holiday.
C6_SaturdayUnlessHoliday ==
    /\ BeforeFirstProbe => \A d \in Days : weekday(d) = Sat =>
          KindOf(d) = IF IsHolidayEntry(d) THEN "Holiday" ELSE "DayBeforeHoliday"
    /\ (pc = "loop" /\ weekday(date(start)) = Sat) =>
          start_kind = IF IsHolidayEntry(date(start))
                       THEN "Holiday" ELSE "DayBeforeHoliday"

\* next() classified a Saturday that is no holiday and whose Sunday is no
\* listed holiday either.
C6_Witness ==
    /\ pc = "loop"
    /\ weekday(date(start)) = Sat
    /\ date(start) \notin holidays
    /\ date(start) + 1 \notin holidays
    /\ start_kind = "DayBeforeHoliday"

\* C7 (Sunday invariant): every Sunday classifies as Holiday, whatever the
\* calendar holds, and next() takes Holiday as the kind of a cursor on a
\* Sunday.
C7_SundayHoliday ==
    /\ BeforeFirstProbe =>
          \A d \in Days : weekday(d) = Sun => KindOf(d) = "Holiday"
    /\ (pc = "loop" /\ weekday(date(start)) = Sun) => start_kind = "Holiday"

\* next() classified a Sunday that is not listed and is the day before a
\* listed holiday.
C7_Witness ==
    /\ pc = "loop"
    /\ weekday(date(start)) = Sun
    /\ date(start) \notin holidays
    /\ date(start) + 1 \in holidays
    /\ start_kind = "Holiday"

\* C8 (interior boundaries): every boundary between two yielded slices is a
\* local midnight.
C8_InteriorMidnights ==
    \A i \in 1..(Len(yielded) - 1) :
        /\ IsMidnight(yielded[i].end)
        /\ IsMidnight(yielded[i + 1].start)

\* A mid-day to mid-day range was sliced to exhaustion with two or more
\* interior boundaries.
C8_Witness ==
    /\ ProperRange
    /\ Exhausted(start, end)
    /\ Len(yielded) >= 3
    /\ ~IsMidnight(yielded[1].start)
    /\ ~IsMidnight(yielded[Len(yielded)].end)

\* A range whose start is after its end was given to slice_on_day_kind.
InvalidRange == op = "slice" /\ range.start > range.end[1]

\* C9 as claimed: once next() has been called on a range whose start is
\* after its end, an invalid-input condition has been signalled.
C9_Original ==
    (InvalidRange /\ ret # "-") => pc = "panic"

\* C9 as amended: a range whose start is after its end signals nothing; every
\* next() returns None, no slice is yielded and the iterator is unchanged.
C9_InvalidRangeIsEmpty ==
    InvalidRange =>
        /\ pc = "idle"
        /\ ret \in {"-", "None"}
        /\ ret = "None" <=> nones > 0
        /\ yielded = << >>
        /\ start = range.start
        /\ end = range.end

\* next() returned None twice on a range whose start is after its end.
C9_Witness ==
    /\ InvalidRange
    /\ ret = "None"
    /\ nones >= 2
    /\ yielded = << >>

\* C10 (bounded slicing is finite): for a bounded range, whatever the
\* calendar, the number of slices never exceeds the number of days the range
\* touches, no call of next() ends in a panic instead of returning, and the
\* iterator comes to return None.
C10_BoundedFinite ==
    /\ [](op = "slice" =>
            Len(yielded) <= DaysTouched(range.start, range.end[1]))
    /\ [](op = "slice" => pc # "invalid_time")
    /\ (op = "slice") ~> (ret = "None")

\* How often day d was classified.
TimesProbed(d) == Cardinality({ i \in 1..Len(probes) : probes[i] = d })

\* C11 as claimed (classifier cost): over a bounded traversal no day is
\* classified twice, and day_kind is called at most once per day the range
\* touches.
C11_Original ==
    op = "slice" =>
        /\ \A d \in Days : TimesProbed(d) <= 1
        /\ Len(probes) <= DaysTouched(range.start, range.end[1])

\* C11 as amended: over a bounded traversal a day is classified at most
\* twice (as the day probed at a midnight and as the day of the cursor of
\* the next call), each call of next() that enters the loop classifies the
\* cursor's day once, and the midnights probed are those of (s, e], each
\* once: at most twice the number of days the range touches.
C11_AtMostTwicePerDay ==
    op = "slice" =>
        /\ \A d \in Days : TimesProbed(d) <= 2
        /\ Len(probes) <= 2 * DaysTouched(range.start, range.end[1])
        /\ Len(probes) <= Len(yielded)
                            + (IF pc \in {"loop", "invalid_time"} THEN 1 ELSE 0)
                            + DaysTouched(range.start, range.end[1])

\* A bounded traversal over three or more days ended after classifying a
\* day twice and calling day_kind more often than the range touches days.
C11_Witness ==
    /\ ProperRange
    /\ ret = "None"
    /\ DaysTouched(range.start, range.end[1]) >= 3
    /\ \E d \in Days : TimesProbed(d) = 2
    /\ Len(probes) > DaysTouched(range.start, range.end[1])

\* Day f is a listed Friday with an unlisted Thursday before it, an unlisted
\* Saturday after it, a listed Monday and an unlisted Tuesday, all of them
\* modelled days (Good Friday to Easter Monday).
HolidayRunOverSaturday(f) ==
    /\ f - 1 \in Days
    /\ f + 4 \in Days
    /\ weekday(f) = Sat - 1
    /\ f \in holidays
    /\ f + 3 \in holidays
    /\ f - 1 \notin holidays
    /\ f + 1 \notin holidays
    /\ f + 4 \notin holidays

\* The slices a traversal over the days f - 1 .. f + 3 must hold.
SlicesOverSaturday(f) ==
    << DayKindSlice(Midnight(f - 1), Midnight(f), "DayBeforeHoliday"),
       DayKindSlice(Midnight(f), Midnight(f + 1), "Holiday"),
       DayKindSlice(Midnight(f + 1), Midnight(f + 2), "DayBeforeHoliday"),
       DayKindSlice(Midnight(f + 2), Midnight(f + 4), "Holiday") >>

\* C12 (a Saturday splits a holiday run): a finished bounded traversal that
\* covers the Thursday to the Monday of such a week
\* yields the Thursday as a one-day DayBeforeHoliday slice, the Friday as a
\* Holiday slice, the Saturday as its own DayBeforeHoliday slice and
\* Sunday-Monday as one Holiday slice.
C12_SaturdaySplitsRun ==
    (op = "slice" /\ pc = "idle" /\ end[1] <= start) =>
        \A f \in Days :
            ( /\ HolidayRunOverSaturday(f)
              /\ range.start <= Midnight(f - 1)
              /\ range.end[1] >= Midnight(f + 4) )
            => \E i \in 1..(Len(yielded) - 3) :
                  \A j \in 1..4 : yielded[i + j - 1] = SlicesOverSaturday(f)[j]

\* Such a week was sliced to the end of the range.
C12_Witness ==
    \E f \in Days :
        /\ HolidayRunOverSaturday(f)
        /\ op = "slice"
        /\ range.start <= Midnight(f - 1)
        /\ range.end[1] >= Midnight(f + 4)
        /\ ret = "None"
        /\ Len(yielded) >= 5

\* Within the modelled days, kind k occurs on or after the day of instant
\* from and some later day has another kind.
KindRecurs(from, k) ==
    \E d \in date(from)..MaxDay :
        /\ KindOf(d) = k
        /\ \E d2 \in (d + 1)..MaxDay : KindOf(d2) # k

\* C13 (next_start terminates whenever kinds recur): when the target kind
\* occurs on or after from and another kind after it, the search does not
\* end in a panic and next_start comes to return; and it returns in no other
\* case, no bound on the search being enforced.
C13_TerminatesOnRecurrence ==
    /\ [](op = "next_start" /\ KindRecurs(range.start, target)
            => pc # "invalid_time")
    /\ (op = "next_start" /\ KindRecurs(range.start, target)) ~> (pc = "found")
    /\ [](Found => KindRecurs(range.start, target))

\* Day d is the day before the next upcoming holiday, as day_kind tests it.
IsHolidayEve(d) ==
    ordinal(d) = ordinal(next_upcoming_holiday(holidays, d)) - 1

\* The rule of the classifier, case by case in its order of precedence.
RuleKind(d) ==
    CASE weekday(d) = Sun -> "Holiday"
      [] weekday(d) # Sun /\ IsHolidayEntry(d) -> "Holiday"
      [] weekday(d) # Sun /\ ~IsHolidayEntry(d)
            /\ (IsHolidayEve(d) \/ weekday(d) = Sat) -> "DayBeforeHoliday"
      [] weekday(d) # Sun /\ ~IsHolidayEntry(d)
            /\ ~IsHolidayEve(d) /\ weekday(d) # Sat -> "Weekday"

\* C14 (classifier rule and precedence): whatever day next() classifies, under
\* whatever calendar, gets exactly one kind: Holiday on a Sunday, else
\* Holiday on the next upcoming holiday, else DayBeforeHoliday on its eve or
\* on a Saturday, else Weekday; a listed holiday followed by another listed
\* holiday is Holiday.
C14_RuleAndPrecedence ==
    pc = "loop" =>
        /\ start_kind \in DayKind
        /\ start_kind = RuleKind(date(start))
        /\ (date(start) \in holidays /\ date(start) + 1 \in holidays)
              => start_kind = "Holiday"

\* next() classified a listed Saturday that is followed by a listed holiday
\* (a holiday, a Saturday and the day before a holiday at once) as Holiday.
C14_Witness ==
    /\ pc = "loop"
    /\ weekday(date(start)) = Sat
    /\ date(start) \in holidays
    /\ date(start) + 1 \in holidays
    /\ start_kind = "Holiday"

\* Day d is a December 31: the next day is the first of a year.
IsDec31(d) == (d + FirstOrdinal) % DaysInYear = 0

\* Day d is a December 31 that is neither Saturday nor Sunday and is not
\* listed, and the next upcoming holiday is the January 1 after it.
UnlistedDec31(d) ==
    /\ IsDec31(d)
    /\ weekday(d) \notin {Sat, Sun}
    /\ d \notin holidays
    /\ next_upcoming_holiday(holidays, d) = d + 1

\* C15 (year-boundary ordinal comparison): such a December 31 classifies as
\* Weekday; next_holiday_ord - 1 is 0 there, the ordinal of no day, and is
\* never negative, so the unsigned subtraction does not underflow.
C15_YearBoundary ==
    /\ BeforeFirstProbe => \A d \in Days :
          /\ ordinal(next_upcoming_holiday(holidays, d)) - 1 >= 0
          /\ ordinal(d) # 0
          /\ UnlistedDec31(d) =>
                /\ ordinal(next_upcoming_holiday(holidays, d)) - 1 = 0
                /\ KindOf(d) = "Weekday"
    /\ (pc = "loop" /\ UnlistedDec31(date(start))) => start_kind = "Weekday"

\* next() classified an unlisted week-day December 31 before a listed
\* January 1 as Weekday.
C15_Witness ==
    /\ pc = "loop"
    /\ UnlistedDec31(date(start))
    /\ ordinal(date(start) + 1) = 1
    /\ start_kind = "Weekday"

\* C16 (the unbounded slicer never reports exhaustion): the iterator that
\* next_start builds with from_dt has no end, next() never returns None on
\* it and the unwrap of next_start never fails.
C16_UnboundedNeverNone ==
    op = "next_start" =>
        /\ end = None
        /\ ret # "None"
        /\ nones = 0
        /\ pc # "panic"

\* The unbounded iterator has yielded three slices and is pulled again.
C16_Witness ==
    /\ op = "next_start"
    /\ Len(yielded) >= 3
    /\ ret = "Some"
    /\ pc = "loop"

\* C17 (a slice is yielded only after the day that ends it was found): in
\* unbounded mode every yielded slice ends at the midnight of a day that was
\* probed and has another kind; so next_start has not returned when the
\* target kind begins at some day on or after from and holds up to the last
\* day, although that day is known to start the target kind.
C17_YieldNeedsKindChange ==
    op = "next_start" =>
        /\ \A i \in 1..Len(yielded) :
              /\ IsMidnight(yielded[i].end)
              /\ TimesProbed(date(yielded[i].end)) >= 1
              /\ KindOf(date(yielded[i].end)) # yielded[i].kind
        /\ (pc = "found" \/ result # None) =>
              ~\E d \in date(range.start)..MaxDay :
                  /\ \A d1 \in date(range.start)..(d - 1) : KindOf(d1) # target
                  /\ \A d2 \in d..MaxDay : KindOf(d2) = target

\* The cursor stands on a day of the target kind, every later day has been
\* probed up to the last one and has the target kind, and next() has not
\* returned.
C17_Witness ==
    /\ op = "next_start"
    /\ pc = "loop"
    /\ start_kind = target
    /\ date(start) <= MaxDay - 2
    /\ \A d2 \in date(start)..MaxDay : KindOf(d2) = target
    /\ step = Midnight(MaxDay)
    /\ result = None

\* C18 (every yielded slice is non-empty): in bounded and in unbounded mode
\* every yielded slice has start < end.
C18_SlicesNonEmpty ==
    \A i \in 1..Len(yielded) : yielded[i].start < yielded[i].end

\* A bounded range that ends on a local midnight was sliced to its end, the
\* last slice running over that midnight's day before being cut there.
C18_Witness ==
    /\ ProperRange
    /\ IsMidnight(range.end[1])
    /\ ret = "None"
    /\ Len(yielded) >= 2
    /\ TimesProbed(date(range.end[1])) = 1
    /\ yielded[Len(yielded)].end = range.end[1]
    /\ KindOf(date(range.end[1])) = yielded[Len(yielded)].kind

\* C19 (exhaustion is stable and leaves the state unchanged): in bounded
\* mode an empty range (start = end) yields no slice, and once the limit is
\* at or before the cursor every call of next() returns None, yields nothing
\* and changes neither the cursor nor the limit, so the iterator stays
\* exhausted.
C19_ExhaustionStable ==
    /\ [](op = "slice" /\ range.start = range.end[1]
            => yielded = << >> /\ pc = "idle" /\ ret \in {"-", "None"})
    /\ [][ (op = "slice" /\ pc = "idle" /\ end[1] <= start) =>
              /\ ret' = "None"
              /\ pc' = "idle"
              /\ start' = start
              /\ end' = end
              /\ yielded' = yielded
              /\ probes' = probes ]_vars

\* After a traversal of two or more slices next() returned None twice and
\* the cursor still stands at the limit.
C19_Witness ==
    /\ ProperRange
    /\ Len(yielded) >= 2
    /\ nones >= 2
    /\ ret = "None"
    /\ start = end[1]
    /\ end = range.end

\* A step of next() that yields a slice sets the cursor to the end of that
\* slice, past its previous value.
YieldAdvancesCursor ==
    Len(yielded') = Len(yielded) + 1 =>
        /\ start' = yielded'[Len(yielded')].end
        /\ start' > start

\* C20 as claimed (cursor progress): every yield sets the cursor to the end
\* of the slice just yielded, past its previous value; next() never changes
\* the limit; and in bounded mode the cursor never exceeds the limit.
C20_Original ==
    /\ [][YieldAdvancesCursor]_vars
    /\ [][end' = end]_vars
    /\ [](op = "slice" => start <= end[1])

\* C20 as amended: the same, the cursor staying at or below the limit when
\* the range was given with start at or before its end; a range given with
\* start after its end keeps its cursor, above the limit, for ever.
C20_CursorProgress ==
    /\ [][YieldAdvancesCursor]_vars
    /\ [][end' = end]_vars
    /\ [](op = "slice" /\ range.start <= range.end[1] => start <= end[1])
    /\ [](op = "slice" /\ range.start > range.end[1] => start = range.start)

\* In the middle of a bounded traversal the cursor stands at the end of the
\* second slice yielded, past the range start and before the limit.
C20_Witness ==
    /\ ProperRange
    /\ pc = "idle"
    /\ ret = "Some"
    /\ Len(yielded) = 2
    /\ start = yielded[2].end
    /\ start > range.start
    /\ start < end[1]
    /\ end = range.end

====
